---- MODULE Spec2Model ----
(***************************************************************************)
(* A model of the shopify-etl daily pipeline: the scheduler process        *)
(* (daily_scheduler.py), the merge executor (run_etl_with_retries.py),     *)
(* the staging loader (incremental_loaders.py) and the dashboard trigger   *)
(* (trigger_pbi.py).                                                       *)
(*                                                                         *)
(* The database is modelled by its committed contents: the etl_run_log     *)
(* table (runLog), the staging tables (staging) and the warehouse tables   *)
(* (warehouse).  Failures of the environment (database, API, file system,  *)
(* dashboard service) and empty extraction results are inputs of the       *)
(* actions; `faults` counts the ones that have happened, and MaxFaults     *)
(* bounds them.                                                            *)
(*                                                                         *)
(* The imports of daily_scheduler.py are taken to resolve: the extractor   *)
(* module under the name it is imported by, and refresh_dataset as a name  *)
(* of trigger_pbi (it is not defined in trigger_pbi.py; RefreshDataset     *)
(* models it from the specification).                                      *)
(***************************************************************************)
EXTENDS Integers, Sequences, FiniteSets, TLC

(***************************************************************************)
(* Bounds of the model.                                                    *)
(***************************************************************************)
MaxInvocations == 2
MaxFaults == 1
MaxJobs == 2

(***************************************************************************)
(* Program constants.                                                      *)
(***************************************************************************)
MaxWorkers == 4

Stores == <<"retail", "wholesale">>

Entities == <<"orders", "customers", "products">>

StoreSet == {Stores[i] : i \in 1..Len(Stores)}

EntitySet == {Entities[i] : i \in 1..Len(Entities)}

\* The tasks in the order run_daily_job submits them.
TaskOrder ==
  [i \in 1..(Len(Stores) * Len(Entities)) |->
     <<Stores[((i - 1) \div Len(Entities)) + 1],
       Entities[((i - 1) % Len(Entities)) + 1]>>]

Tasks == {TaskOrder[i] : i \in 1..Len(TaskOrder)}

\* The staging tables one loader call truncates and fills, by entity.
TablesOf(entity) ==
  CASE entity = "orders" -> {"fact_orders", "fact_order_items"}
    [] entity = "customers" -> {"dim_customers"}
    [] entity = "products" ->
         {"dim_products", "dim_product_variants",
          "fact_current_inventory", "inventory_snapshot"}

\* The name of a staging table of a store.
StagingTable(store, tbl) == <<store, tbl>>

StagingTables ==
  {StagingTable(s, tbl) : s \in StoreSet,
                          tbl \in UNION {TablesOf(e) : e \in EntitySet}}

NullMark == -1

(***************************************************************************)
(* State.                                                                  *)
(***************************************************************************)
VARIABLES
  inv,          \* number of the current process run (invocation), 0 before the first
  pc,           \* position of the scheduler process
  taskState,    \* per submitted task: PENDING, RUNNING, STAGED, STAGE_FAILED, RAISED
  runLog,       \* etl_run_log: one row per (invocation, task) once inserted
  staging,      \* per staging table: its rows, in the order of their insertion
  warehouse,    \* per entity and job: the invocation whose merge it holds
  txn,          \* the merge transaction in progress
  mergeIdx,     \* index in Entities of the entity being merged
  mergeRes,     \* result of the current entity's run_entity_merge
  mergeState,   \* per entity: PENDING, RUNNING, MERGED, MERGE_FAILED
  allMergesOk,  \* all_merges_successful
  whBefore,     \* the warehouse as it was when the current merge began
  refreshState, \* NONE, TRIGGERED, FAILED, SKIPPED: the gate-2 outcome
  refreshSent,  \* refresh requests sent to the dashboard service in this run
  exc,          \* where the exception that ended the process was raised
  faults,       \* environment failures and empty batches so far
  openConns,    \* the run-log operations that ended with their connection open
  gsRows,       \* get_start_date alone: the rows of etl_run_log
  gsNow,        \* get_start_date alone: the time of the call
  gsResult,     \* get_start_date alone: the call made and what it returned
  fxClass,      \* extractor: the class of the instance
  fxScript,     \* extractor: the API's responses, in the order of the requests
  fxNow,        \* extractor: time.time(), in ticks
  fxLast,       \* extractor: self.last_request_time
  fxReqs,       \* extractor: the requests issued, with their issue times
  fxCalls,      \* extractor: fetch_all calls begun on the instance
  fxState,      \* extractor: idle, loop, returned, raised
  fxVars,       \* extractor: the `variables` mapping of the current call
  fxCursor,     \* extractor: cursor
  fxHasNext,    \* extractor: has_next
  fxRecords,    \* extractor: all_records
  fxPageCount,  \* extractor: page_count
  fxFirst,      \* extractor: the number of the current call's first request
  fxResult,     \* extractor: what the last call that ended gave its caller
  ldLast,       \* worker alone: the last process_entity call and what it returned
  gmObj,        \* get_money alone: the argument
  gmOut         \* get_money alone: the call made and its outcome

schedVars == <<inv, pc, taskState, runLog, staging, warehouse, txn, mergeIdx,
               mergeRes, mergeState, allMergesOk, whBefore, refreshState,
               refreshSent, exc, faults, openConns>>

gsVars == <<gsRows, gsNow, gsResult>>

fxVarsAll == <<fxClass, fxScript, fxNow, fxLast, fxReqs, fxCalls, fxState,
               fxVars, fxCursor, fxHasNext, fxRecords, fxPageCount, fxFirst,
               fxResult>>

ldVars == <<ldLast>>

gmVars == <<gmObj, gmOut>>

vars == <<schedVars, gsVars, fxVarsAll, ldVars, gmVars>>

RunIds == (1..MaxInvocations) \X Tasks

\* No row with this id.
NoRec ==
  [status |-> "NONE", staging_success |-> "NULL", merge_success |-> "NULL",
   mark |-> NullMark, notes |-> "NULL"]

\* The row log_start inserts.
NewRec ==
  [status |-> "RUNNING", staging_success |-> "NULL", merge_success |-> "NULL",
   mark |-> NullMark, notes |-> "NULL"]

NoTxn == [open |-> FALSE, done |-> 0]

NoRes == [ok |-> FALSE, err |-> "NULL", set |-> FALSE, jobs |-> 0]

NoStart == [set |-> FALSE, store |-> "", entity |-> "", value |-> 0]

(***************************************************************************)
(* Watermark store: the etl_run_log helpers of daily_scheduler.py.  Each   *)
(* is one committed statement on the table.                                *)
(***************************************************************************)
RunId(i, t) == <<i, t>>

StoreOf(rid) == rid[2][1]

EntityOf(rid) == rid[2][2]

\* INSERT INTO etl_run_log (...) VALUES (store, entity, 'RUNNING', NOW())
log_start(log, rid) == [log EXCEPT ![rid] = NewRec]

\* UPDATE ... SET staging_success = TRUE, source_updated_at = mark WHERE id = run_id
log_staging_success(log, rid, mark) ==
  [log EXCEPT ![rid] = [@ EXCEPT !.staging_success = "TRUE", !.mark = mark]]

\* UPDATE ... SET status = 'FAILED', notes = msg WHERE id = run_id
log_fail(log, rid, msg) ==
  [log EXCEPT ![rid] = [@ EXCEPT !.status = "FAILED", !.notes = msg]]

\* The UPDATE without its status filter: WHERE entity_name = entity
MergeResultRows_nofilter(log, entity) ==
  {r \in RunIds : log[r].status # "NONE" /\ EntityOf(r) = entity}

\* The rows the merge-result UPDATE of run_daily_job selects:
\* WHERE entity_name = entity AND status = 'RUNNING'
MergeResultRows(log, entity) ==
  {r \in RunIds : log[r].status = "RUNNING" /\ EntityOf(r) = entity}

\* UPDATE ... SET merge_success = success, status = status, notes = err
mark_merge_result(log, entity, success, err) ==
  [r \in RunIds |->
     IF r \in MergeResultRows(log, entity)
     THEN [log[r] EXCEPT !.merge_success = IF success THEN "TRUE" ELSE "FALSE",
                         !.status = IF success THEN "SUCCESS" ELSE "FAILED",
                         !.notes = err]
     ELSE log[r]]

\* The operations written as conn = get_db_conn(); try: ... finally:
\* conn.close().  The merge-result UPDATE of run_daily_job is not one: its
\* conn.close() is the last statement of a straight sequence.
ClosesInFinally ==
  {"log_start", "log_staging_success", "log_fail", "get_start_date"}

\* The connection an operation leaves open when it ends.  raised: a
\* statement of the operation raised after get_db_conn() had returned.
ConnLeft(op, raised) ==
  IF raised /\ op \notin ClosesInFinally THEN {op} ELSE {}

(***************************************************************************)
(* get_start_date.  Time is counted in ticks, TicksPerDay to the day.  A   *)
(* row of etl_run_log is a record [store, entity, status, mark], mark the  *)
(* source_updated_at column (NullMark: NULL).                              *)
(***************************************************************************)
TicksPerDay == 2

MinLookbackDays == 2

DefaultLookbackDays == 3

MaxOf(S) == CHOOSE x \in S : \A y \in S : y <= x

\* SELECT source_updated_at ... WHERE store_name = store AND
\* entity_name = entity AND status = 'SUCCESS': the marks of the rows selected
SuccessMarks(rows, store, entity) ==
  {r.mark : r \in {x \in rows : /\ x.store = store
                                /\ x.entity = entity
                                /\ x.status = "SUCCESS"}}

\* ORDER BY source_updated_at DESC LIMIT 1 on a non-empty selection: in
\* descending order PostgreSQL puts the NULLs first.
FirstByMarkDesc(marks) ==
  IF NullMark \in marks THEN NullMark ELSE MaxOf(marks)

\* (datetime.now(tz) - last_success).days: whole days, rounded down
DaysGap(now, last_success) == (now - last_success) \div TicksPerDay

get_start_date(rows, store, entity, now) ==
  LET marks == SuccessMarks(rows, store, entity)
  IN IF marks # {} /\ FirstByMarkDesc(marks) # NullMark
     THEN LET days_gap == DaysGap(now, FirstByMarkDesc(marks))
              lookback == MinLookbackDays + (IF days_gap > 0 THEN days_gap ELSE 0)
          IN now - lookback * TicksPerDay
     ELSE now - DefaultLookbackDays * TicksPerDay

(***************************************************************************)
(* Staging writer: IncrementalLoader.  A string is a sequence of tokens,   *)
(* "/" being one of them.  A batch is the list of records extracted, each  *)
(* a record [id, updatedAt] (NullMark: no updatedAt); a staging table's    *)
(* content is the list of its rows, each a record [id, updated_at].        *)
(***************************************************************************)
\* Python's None, where a string is expected.
None == <<"None">>

\* "gid://shopify/<Type>/<n>"
Gid(n) == <<"gid:", "/", "/", "shopify", "/", "Type", "/", n>>

\* str(gid).split('/')[-1]
RECURSIVE LastSegment(_)
LastSegment(str) ==
  IF str = <<>> \/ str[Len(str)] = "/" THEN <<>>
  ELSE Append(LastSegment(SubSeq(str, 1, Len(str) - 1)), str[Len(str)])

\* if not gid: return None;  return f"{prefix}{str(gid).split('/')[-1]}"
clean_id(gid, prefix) ==
  IF gid = None \/ gid = <<>> THEN None ELSE prefix \o LastSegment(gid)

\* self.prefix = "R-" if "retail" in store_name else "W-"
StorePrefix(store) == IF store = "retail" THEN <<"R-">> ELSE <<"W-">>

\* The tables whose key column is written with clean_id(..., self.prefix):
\* order_id, line_item_id, customer_id.  The key columns of the product
\* tables (product_id, variant_id, inventory_id) are written with
\* clean_id(..., "").
PrefixedTables == {"fact_orders", "fact_order_items", "dim_customers"}

KeyPrefix(store, tbl) ==
  IF tbl \in PrefixedTables THEN StorePrefix(store) ELSE <<>>

\* The rows of a table the loader derives from a batch, one a record.
Rows(batch, store, tbl) ==
  [i \in 1..Len(batch) |->
     [id |-> clean_id(batch[i].id, KeyPrefix(store, tbl)),
      updated_at |-> batch[i].updatedAt]]

\* The batch extracted in invocation i when the API returns records.
BatchOf(i) == <<[id |-> Gid("1"), updatedAt |-> i]>>

\* for entry in data_list: curr = node.get('updatedAt'); if curr: if
\* max_updated_at is None or curr > max_updated_at: max_updated_at = curr
RECURSIVE ScanUpdated(_, _, _)
ScanUpdated(batch, i, max_so_far) ==
  IF i > Len(batch) THEN max_so_far
  ELSE LET curr == batch[i].updatedAt
       IN ScanUpdated(batch, i + 1,
                      IF curr # NullMark
                           /\ (max_so_far = NullMark \/ curr > max_so_far)
                      THEN curr ELSE max_so_far)

max_updated_at(batch) == ScanUpdated(batch, 1, NullMark)

\* The loader without its TRUNCATE.
truncate_staging_none(stg, store, tables) == stg

\* TRUNCATE TABLE t for every table of the list, then commit.
truncate_staging(stg, store, tables) ==
  [tb \in StagingTables |->
     IF tb[1] = store /\ tb[2] \in tables THEN <<>> ELSE stg[tb]]

\* df.to_sql(table, if_exists='append'): the rows are added to what the
\* table holds; an exception of the insert is caught and logged, and the
\* table keeps what it held.
bulk_insert(held, rows, ok) == IF ok THEN held \o rows ELSE held

\* The inserts of one load_*_json call, the tables of `lost` failing.
bulk_insert_all(stg, store, tables, batch, lost) ==
  [tb \in StagingTables |->
     IF tb[1] = store /\ tb[2] \in tables
     THEN bulk_insert(stg[tb], Rows(batch, store, tb[2]), tb[2] \notin lost)
     ELSE stg[tb]]

\* The loader returns the updatedAt of the last record.
LoadReturn_last(batch) == batch[Len(batch)].updatedAt

\* return max_updated_at
LoadReturn(batch) == max_updated_at(batch)

\* load_orders_json / load_customers_json / load_products_json on the file
\* that holds `batch`: truncate, read and flatten, insert, return the
\* greatest updatedAt.  fail: the statement that raises, if it is one of
\* the loader's.
load_json(stg, store, entity, batch, fail, lost) ==
  LET tables == TablesOf(entity)
      truncated == truncate_staging(stg, store, tables)
  IN IF fail = "truncate" THEN [raised |-> TRUE, value |-> NullMark, stg |-> stg]
     ELSE IF fail = "parse"
     THEN [raised |-> TRUE, value |-> NullMark, stg |-> truncated]
     ELSE [raised |-> FALSE, value |-> LoadReturn(batch),
           stg |-> bulk_insert_all(truncated, store, tables, batch, lost)]

(***************************************************************************)
(* process_entity, from the try block on.  env is what the environment     *)
(* does during the call: env.fail is the statement that raises ("none":    *)
(* no statement does), env.empty whether the extracted batch is empty,     *)
(* env.lost the tables whose bulk insert fails, env.logfail whether        *)
(* log_fail raises in the handler.  The result is what the call returns    *)
(* ("True", "False", or "raise" when an exception leaves it), the run log  *)
(* and the staging tables after it.                                        *)
(***************************************************************************)
FailPoints == {"get_start_date", "extract", "truncate", "parse", "mark"}

\* except Exception as e: log_fail(run_id, str(e)); return False
TaskExcept(log, rid, msg, stg, logfail) ==
  IF logfail
  THEN [ret |-> "raise", log |-> log, stg |-> stg]
  ELSE [ret |-> "False", log |-> log_fail(log, rid, msg), stg |-> stg]

\* log_staging_success(run_id, max_date); return True
TaskStaged(log, rid, mark, stg) ==
  [ret |-> "True", log |-> log_staging_success(log, rid, mark), stg |-> stg]

ProcessEntityBody(rid, batch, log, stg, env) ==
  LET loaded == load_json(stg, StoreOf(rid), EntityOf(rid), batch,
                          env.fail, env.lost)
  IN
  IF env.fail \in {"get_start_date", "extract"}
  THEN TaskExcept(log, rid, env.fail, stg, env.logfail)
  ELSE IF batch = <<>>
  THEN \* `if data:` is false: nothing is saved or loaded, max_date is None
       IF env.fail = "mark"
       THEN TaskExcept(log, rid, env.fail, stg, env.logfail)
       ELSE TaskStaged(log, rid, NullMark, stg)
  ELSE IF loaded.raised \/ env.fail = "mark"
  THEN TaskExcept(log, rid, env.fail, loaded.stg, env.logfail)
  ELSE TaskStaged(log, rid, loaded.value, loaded.stg)

\* The failures of env (a failure of log_fail in the handler is counted
\* with the failure handled).
FaultsOf(env) == (IF env.fail = "none" THEN 0 ELSE 1) + Cardinality(env.lost)

\* The failures and empty batches of env.
EnvCost(env) == FaultsOf(env) + (IF env.empty THEN 1 ELSE 0)

\* What the environment can do during one call.
EnvsOf(entity) ==
  [fail : FailPoints, empty : {FALSE}, lost : {{}}, logfail : BOOLEAN]
    \cup [fail : {"mark"}, empty : {TRUE}, lost : {{}}, logfail : BOOLEAN]
    \cup [fail : {"none"}, empty : BOOLEAN, lost : {{}}, logfail : {FALSE}]
    \cup [fail : {"none"}, empty : {FALSE},
          lost : {l \in SUBSET TablesOf(entity) :
                    l # {} /\ Cardinality(l) <= MaxFaults},
          logfail : {FALSE}]
    \cup [fail : {"mark"}, empty : {FALSE},
          lost : {l \in SUBSET TablesOf(entity) :
                    l # {} /\ Cardinality(l) < MaxFaults},
          logfail : BOOLEAN]

TaskEnvs == [e \in EntitySet |-> EnvsOf(e)]

\* The connections the run-log operations of one process_entity call leave
\* open: get_start_date, then log_staging_success or log_fail.
ConnsLeftByTask(env) ==
  ConnLeft("get_start_date", env.fail = "get_start_date")
    \cup ConnLeft("log_staging_success", env.fail = "mark")
    \cup ConnLeft("log_fail", env.logfail)

(***************************************************************************)
(* The states before the first run.                                        *)
(***************************************************************************)
\* The scheduler has not run.
InitRun ==
  /\ inv = 0
  /\ pc = "idle"
  /\ taskState = [t \in Tasks |-> "PENDING"]
  /\ runLog = [r \in RunIds |-> NoRec]
  /\ warehouse = [e \in EntitySet |-> [j \in 1..MaxJobs |-> 0]]
  /\ txn = NoTxn
  /\ mergeIdx = 0
  /\ mergeRes = NoRes
  /\ mergeState = [e \in EntitySet |-> "PENDING"]
  /\ allMergesOk = TRUE
  /\ whBefore = warehouse
  /\ refreshState = "NONE"
  /\ refreshSent = 0
  /\ exc = "none"
  /\ faults = 0
  /\ openConns = {}

\* The staging tables hold the rows of an earlier run.
InitSched ==
  /\ InitRun
  /\ staging = [tb \in StagingTables |-> Rows(BatchOf(0), tb[1], tb[2])]

\* get_start_date is not being called alone.
InitNoStart ==
  /\ gsRows = {}
  /\ gsNow = 0
  /\ gsResult = NoStart

NullCursor == 0

NoResult == [kind |-> "none", value |-> <<>>]

\* No extractor instance is being followed.
InitNoFetch ==
  /\ fxClass = "none"
  /\ fxScript = <<>>
  /\ fxNow = 0
  /\ fxLast = 0
  /\ fxReqs = <<>>
  /\ fxCalls = 0
  /\ fxState = "idle"
  /\ fxVars = [query |-> "none", cursor |-> NullCursor]
  /\ fxCursor = NullCursor
  /\ fxHasNext = TRUE
  /\ fxRecords = <<>>
  /\ fxPageCount = 0
  /\ fxFirst = 1
  /\ fxResult = NoResult

NoLoad ==
  [n |-> 0, task |-> <<"", "">>, batch |-> <<>>, lost |-> {}, fail |-> "none",
   ret |-> "none", again |-> FALSE]

NoMoney == [set |-> FALSE, raised |-> FALSE, value |-> 0]

\* process_entity and get_money are not being called alone.
InitNoLoad ==
  /\ ldLast = NoLoad
  /\ gmObj = [t |-> "null"]
  /\ gmOut = NoMoney

Init ==
  /\ InitSched
  /\ InitNoStart
  /\ InitNoFetch
  /\ InitNoLoad

(***************************************************************************)
(* The scheduler process: the imports, then run_daily_job.                 *)
(***************************************************************************)
\* The tasks submitted before each task.
Before ==
  [t \in Tasks |->
     {TaskOrder[j] : j \in {i \in 1..Len(TaskOrder) :
                             \E k \in (i + 1)..Len(TaskOrder) : TaskOrder[k] = t}}]

Running == {t \in Tasks : taskState[t] = "RUNNING"}

Finished(t) == taskState[t] \in {"STAGED", "STAGE_FAILED", "RAISED"}

\* `from trigger_pbi import refresh_dataset` runs the body of trigger_pbi.py:
\* request_access_token(), then requests.post(endpoint).  A failure of the
\* token request raises out of the import and ends the process.
ImportTriggerPbi ==
  /\ pc \in {"idle", "done", "raised"}
  /\ inv < MaxInvocations
  /\ inv' = inv + 1
  /\ taskState' = [t \in Tasks |-> "PENDING"]
  /\ txn' = NoTxn
  /\ mergeIdx' = 0
  /\ mergeRes' = NoRes
  /\ mergeState' = [e \in EntitySet |-> "PENDING"]
  /\ allMergesOk' = TRUE
  /\ whBefore' = warehouse
  /\ refreshState' = "NONE"
  /\ openConns' = {}
  /\ \E tokenOk \in BOOLEAN :
       IF tokenOk
       THEN /\ refreshSent' = 1
            /\ pc' = "loaded"
            /\ exc' = "none"
            /\ faults' = faults
       ELSE /\ faults < MaxFaults
            /\ refreshSent' = 0
            /\ pc' = "raised"
            /\ exc' = "import"
            /\ faults' = faults + 1
  /\ UNCHANGED <<runLog, staging, warehouse>>
  /\ UNCHANGED <<gsVars, fxVarsAll, ldVars, gmVars>>

\* run_daily_job up to the end of the submit loop: the six tasks are queued.
SubmitTasks ==
  /\ pc = "loaded"
  /\ pc' = "phase1"
  /\ UNCHANGED <<inv, taskState, runLog, staging, warehouse, txn, mergeIdx,
                 mergeRes, mergeState, allMergesOk, whBefore, refreshState,
                 refreshSent, exc, faults, openConns>>
  /\ UNCHANGED <<gsVars, fxVarsAll, ldVars, gmVars>>

\* An executor that starts a thread for every submitted task.
WorkerFree_unbounded == TRUE

\* ThreadPoolExecutor(max_workers=4): a queued task is taken when fewer
\* than max_workers tasks are running.
WorkerFree == Cardinality(Running) < MaxWorkers

\* A free worker takes the next queued task and process_entity begins:
\* log_start inserts the RUNNING row, or raises (outside the try block).
TaskStart(t) ==
  /\ pc = "phase1"
  /\ taskState[t] = "PENDING"
  /\ \A u \in Before[t] : taskState[u] # "PENDING"
  /\ WorkerFree
  /\ \E startOk \in BOOLEAN :
       IF startOk
       THEN /\ runLog' = log_start(runLog, RunId(inv, t))
            /\ taskState' = [taskState EXCEPT ![t] = "RUNNING"]
            /\ faults' = faults
            /\ openConns' = openConns \cup ConnLeft("log_start", FALSE)
       ELSE /\ faults < MaxFaults
            /\ runLog' = runLog
            /\ taskState' = [taskState EXCEPT ![t] = "RAISED"]
            /\ faults' = faults + 1
            /\ openConns' = openConns \cup ConnLeft("log_start", TRUE)
  /\ UNCHANGED <<inv, pc, staging, warehouse, txn, mergeIdx, mergeRes,
                 mergeState, allMergesOk, whBefore, refreshState, refreshSent,
                 exc>>
  /\ UNCHANGED <<gsVars, fxVarsAll, ldVars, gmVars>>

\* The rest of process_entity: the try block and its handler.
TaskFinish(t) ==
  /\ pc = "phase1"
  /\ taskState[t] = "RUNNING"
  /\ \E env \in TaskEnvs[t[2]] :
       /\ faults + EnvCost(env) <= MaxFaults
       /\ faults' = faults + EnvCost(env)
       /\ LET batch == IF env.empty THEN <<>> ELSE BatchOf(inv)
              out == ProcessEntityBody(RunId(inv, t), batch, runLog, staging, env)
          IN
          /\ runLog' = out.log
          /\ staging' = out.stg
          /\ openConns' = openConns \cup ConnsLeftByTask(env)
          /\ taskState' =
               [taskState EXCEPT ![t] =
                  CASE out.ret = "True" -> "STAGED"
                    [] out.ret = "False" -> "STAGE_FAILED"
                    [] OTHER -> "RAISED"]
  /\ UNCHANGED <<inv, pc, warehouse, txn, mergeIdx, mergeRes, mergeState,
                 allMergesOk, whBefore, refreshState, refreshSent, exc>>
  /\ UNCHANGED <<gsVars, fxVarsAll, ldVars, gmVars>>

\* `if not any(results)` in the place of `if not all(results)`.
Gate1Open_any == \E t \in Tasks : taskState[t] = "STAGED"

\* The executor has shut down (every task finished); results are collected:
\* t.result() re-raises a task's exception; `if not all(results): return`.
Gate1Open == \A t \in Tasks : taskState[t] = "STAGED"

\* The executor left to run on (shutdown(wait=False)) and the results read
\* as soon as one task has finished.
ExecutorDone_first == \E t \in Tasks : Finished(t)

\* The `with` block of the executor ends: __exit__ is shutdown(wait=True),
\* which returns when every submitted task has finished.
ExecutorDone == \A t \in Tasks : Finished(t)

CollectResults ==
  /\ pc = "phase1"
  /\ ExecutorDone
  /\ pc' = IF \E t \in Tasks : taskState[t] = "RAISED" THEN "raised"
           ELSE IF Gate1Open THEN "merge"
           ELSE "done"
  /\ mergeIdx' = IF pc' = "merge" THEN 1 ELSE 0
  /\ exc' = IF pc' = "raised" THEN "process_entity" ELSE "none"
  /\ UNCHANGED <<inv, taskState, runLog, staging, warehouse, txn, mergeRes,
                 mergeState, allMergesOk, whBefore, refreshState, refreshSent,
                 faults, openConns>>
  /\ UNCHANGED <<gsVars, fxVarsAll, ldVars, gmVars>>

(***************************************************************************)
(* Merge executor: run_entity_merge.  Every entity has MaxJobs SQL jobs;   *)
(* job j of entity e writes warehouse[e][j].  The statements executed in   *)
(* the open transaction are jobs 1..txn.done; they reach the warehouse     *)
(* only by a commit.                                                       *)
(***************************************************************************)
\* The merge loop taking the entities last to first.
CurEntity_reversed == Entities[Len(Entities) + 1 - mergeIdx]

\* for entity in entities: the entity of the current turn of the merge loop
CurEntity == Entities[mergeIdx]

\* conn.commit(): the writes of every job of the entity become visible.
CommitJobs(wh, entity, batch, done) ==
  [wh EXCEPT ![entity] =
     [j \in 1..MaxJobs |-> IF j <= done THEN batch ELSE wh[entity][j]]]

\* A failure handler that keeps the statements already executed.
RollbackJobs_keep(wh, entity, batch, done) ==
  CommitJobs(wh, entity, batch, done)

\* conn.rollback(): the writes of the transaction are dropped.
RollbackJobs(wh, entity, batch, done) == wh

\* return False, str(e)  /  return True, None
\* (jobs: the statements the transaction had executed, kept for the record)
MergeResult(ok, err, jobs) ==
  [ok |-> ok, err |-> err, set |-> TRUE, jobs |-> jobs]

\* An exception leaves run_entity_merge, and with it run_daily_job.  The
\* connection is closed without a commit: the open transaction is dropped.
MergeRaises ==
  /\ pc' = "raised"
  /\ exc' = "run_entity_merge"
  /\ txn' = NoTxn
  /\ UNCHANGED <<mergeRes, mergeState, warehouse>>

\* except Exception as e: conn.rollback(); return False, str(e)
\* (conn.rollback() itself raises when rollbackOk is false; that failure is
\* counted with the failure handled).
MergeExcept(msg, rollbackOk, cost) ==
  IF rollbackOk
  THEN /\ faults + cost <= MaxFaults
       /\ faults' = faults + cost
       /\ warehouse' = RollbackJobs(warehouse, CurEntity, inv, txn.done)
       /\ txn' = NoTxn
       /\ mergeRes' = MergeResult(FALSE, msg, txn.done)
       /\ mergeState' = [mergeState EXCEPT ![CurEntity] = "MERGE_FAILED"]
       /\ pc' = "mark"
       /\ exc' = exc
  ELSE /\ faults + cost <= MaxFaults
       /\ faults' = faults + cost
       /\ MergeRaises

\* run_entity_merge up to get_db_conn(): load_config, the lookup of the
\* entity's jobs, the connection.
MergeOpen ==
  /\ pc = "merge"
  /\ whBefore' = warehouse
  /\ \E env \in {"ok", "config", "nojobs", "connect"} :
       CASE env = "ok" ->
              /\ txn' = [open |-> TRUE, done |-> 0]
              /\ mergeState' = [mergeState EXCEPT ![CurEntity] = "RUNNING"]
              /\ pc' = "jobs"
              /\ UNCHANGED <<faults, mergeRes, warehouse, exc>>
         [] env = "nojobs" ->
              /\ faults < MaxFaults
              /\ faults' = faults + 1
              /\ mergeRes' = MergeResult(FALSE, "No SQL jobs found", 0)
              /\ mergeState' = [mergeState EXCEPT ![CurEntity] = "MERGE_FAILED"]
              /\ pc' = "mark"
              /\ UNCHANGED <<txn, warehouse, exc>>
         [] OTHER ->
              /\ faults < MaxFaults
              /\ faults' = faults + 1
              /\ mergeState' = [mergeState EXCEPT ![CurEntity] = "RUNNING"]
              /\ pc' = "raised"
              /\ exc' = "run_entity_merge"
              /\ UNCHANGED <<txn, mergeRes, warehouse>>
  /\ UNCHANGED <<inv, taskState, runLog, staging, mergeIdx, allMergesOk,
                 refreshState, refreshSent, openConns>>
  /\ UNCHANGED <<gsVars, fxVarsAll, ldVars, gmVars>>

\* One turn of `for job in entity_jobs`: load_sql, render_sql, cur.execute.
MergeJob ==
  /\ pc = "jobs"
  /\ txn.done < MaxJobs
  /\ \E env \in {"ok", "template", "sql"}, rollbackOk \in BOOLEAN :
       IF env = "ok"
       THEN /\ rollbackOk
            /\ txn' = [txn EXCEPT !.done = @ + 1]
            /\ UNCHANGED <<pc, faults, mergeRes, mergeState, warehouse, exc>>
       ELSE MergeExcept(env, rollbackOk, 1)
  /\ UNCHANGED <<inv, taskState, runLog, staging, mergeIdx, allMergesOk,
                 whBefore, refreshState, refreshSent, openConns>>
  /\ UNCHANGED <<gsVars, fxVarsAll, ldVars, gmVars>>

\* conn.commit(); return True, None
MergeCommit ==
  /\ pc = "jobs"
  /\ txn.done = MaxJobs
  /\ \E commitOk \in BOOLEAN, rollbackOk \in BOOLEAN :
       IF commitOk
       THEN /\ rollbackOk
            /\ warehouse' = CommitJobs(warehouse, CurEntity, inv, txn.done)
            /\ txn' = NoTxn
            /\ mergeRes' = MergeResult(TRUE, "NULL", txn.done)
            /\ mergeState' = [mergeState EXCEPT ![CurEntity] = "MERGED"]
            /\ pc' = "mark"
            /\ exc' = exc
            /\ faults' = faults
       ELSE MergeExcept("commit", rollbackOk, 1)
  /\ UNCHANGED <<inv, taskState, runLog, staging, mergeIdx, allMergesOk,
                 whBefore, refreshState, refreshSent, openConns>>
  /\ UNCHANGED <<gsVars, fxVarsAll, ldVars, gmVars>>

\* The rest of the loop body of run_daily_job: all_merges_successful, the
\* UPDATE of the run log on a connection of its own, then the next entity.
\* The database may fail in get_db_conn() ("connect") or in the statement or
\* its commit ("execute"); either exception leaves run_daily_job, the
\* second with conn.close() not reached.
MarkMergeResult ==
  /\ pc = "mark"
  /\ allMergesOk' = (allMergesOk /\ mergeRes.ok)
  /\ \E env \in {"ok", "connect", "execute"} :
       IF env = "ok"
       THEN /\ runLog' = mark_merge_result(runLog, CurEntity, mergeRes.ok,
                                           mergeRes.err)
            /\ pc' = IF mergeIdx < Len(Entities) THEN "merge" ELSE "gate2"
            /\ mergeIdx' = IF mergeIdx < Len(Entities) THEN mergeIdx + 1
                           ELSE mergeIdx
            /\ mergeRes' = NoRes
            /\ exc' = exc
            /\ faults' = faults
            /\ openConns' = openConns \cup ConnLeft("mark_merge_result", FALSE)
       ELSE /\ faults < MaxFaults
            /\ faults' = faults + 1
            /\ pc' = "raised"
            /\ exc' = "mark_merge_result"
            /\ openConns' =
                 openConns \cup ConnLeft("mark_merge_result", env = "execute")
            /\ UNCHANGED <<runLog, mergeIdx, mergeRes>>
  /\ UNCHANGED <<inv, taskState, staging, warehouse, txn, mergeState,
                 whBefore, refreshState, refreshSent>>
  /\ UNCHANGED <<gsVars, fxVarsAll, ldVars, gmVars>>

(***************************************************************************)
(* Dashboard refresh.  refresh_dataset is not defined in trigger_pbi.py:   *)
(* it is modelled as the one POST-style call of the specification, which   *)
(* sends the request or fails with a RefreshError.                         *)
(***************************************************************************)
RefreshDataset(ok) == IF ok THEN refreshSent + 1 ELSE refreshSent

\* The refresh call without its try/except.
AfterRefresh_uncaught(ok) == IF ok THEN "done" ELSE "raised"

\* try: refresh_dataset() ... except Exception as e: logger.error(...)
\* Where the process is after the statement: the exception is caught.
AfterRefresh(ok) == "done"

\* if all_merges_successful: the refresh, guarded; else: the skip is logged.
Gate2 ==
  /\ pc = "gate2"
  /\ IF allMergesOk
     THEN \E ok \in BOOLEAN :
            /\ ~ok => faults < MaxFaults
            /\ faults' = IF ok THEN faults ELSE faults + 1
            /\ refreshSent' = RefreshDataset(ok)
            /\ refreshState' = IF ok THEN "TRIGGERED" ELSE "FAILED"
            /\ pc' = AfterRefresh(ok)
            /\ exc' = IF pc' = "raised" THEN "refresh_dataset" ELSE exc
     ELSE /\ refreshState' = "SKIPPED"
          /\ pc' = "done"
          /\ UNCHANGED <<refreshSent, faults, exc>>
  /\ UNCHANGED <<inv, taskState, runLog, staging, warehouse, txn, mergeIdx,
                 mergeRes, mergeState, allMergesOk, whBefore, openConns>>
  /\ UNCHANGED <<gsVars, fxVarsAll, ldVars, gmVars>>

Next ==
  \/ ImportTriggerPbi
  \/ SubmitTasks
  \/ \E t \in Tasks : TaskStart(t)
  \/ \E t \in Tasks : TaskFinish(t)
  \/ CollectResults
  \/ MergeOpen
  \/ MergeJob
  \/ MergeCommit
  \/ MarkMergeResult
  \/ Gate2

Spec == Init /\ [][Next]_vars

\* The scheduler with its threads scheduled: a free worker takes a queued
\* task, every running task terminates, and the main thread goes on when it
\* can.
SpecLive ==
  /\ Spec
  /\ WF_vars(\E t \in Tasks : TaskStart(t))
  /\ \A t \in Tasks : WF_vars(TaskFinish(t))
  /\ WF_vars(SubmitTasks)
  /\ WF_vars(CollectResults)


(***************************************************************************)
(* get_start_date alone (specification SpecStart): the run log holds any   *)
(* at most MaxRows rows of two (store, entity) pairs, with marks up to     *)
(* MaxTick and NULL, and the call is made at any time up to MaxTick.       *)
(***************************************************************************)
MaxRows == 2
MaxTick == 7

GsRow ==
  [store : {"retail"}, entity : {"orders", "customers"},
   status : {"RUNNING", "SUCCESS", "FAILED"},
   mark : (0..MaxTick) \cup {NullMark}]

\* The sets of at most n rows.
RECURSIVE RowSets(_)
RowSets(n) ==
  IF n = 0 THEN {{}}
  ELSE LET smaller == RowSets(n - 1)
       IN smaller \cup {rs \cup {r} : rs \in smaller, r \in GsRow}

InitStart ==
  /\ InitSched
  /\ InitNoFetch
  /\ InitNoLoad
  /\ gsRows \in RowSets(MaxRows)
  /\ gsNow \in 0..MaxTick
  /\ gsResult = NoStart

GetStartDateCall ==
  /\ ~gsResult.set
  /\ \E e \in {"orders", "customers"} :
       gsResult' = [set |-> TRUE, store |-> "retail", entity |-> e,
                    value |-> get_start_date(gsRows, "retail", e, gsNow)]
  /\ UNCHANGED <<gsRows, gsNow, schedVars, fxVarsAll, ldVars, gmVars>>

NextStart == GetStartDateCall

SpecStart == InitStart /\ [][NextStart]_vars

(***************************************************************************)
(* Properties of the scheduler (specification Spec).                       *)
(***************************************************************************)
MergeCalled(e) == mergeState[e] # "PENDING"

InPhase2 == pc \in {"merge", "jobs", "mark", "gate2"}

\* C1 (gate rule 1): a merge is called only if every staging task of the
\* invocation reported STAGED; once a task has reported STAGE_FAILED no
\* merge is attempted for any entity and the invocation ends without
\* entering phase 2.
C1_GateRule1 ==
  /\ (InPhase2 \/ txn.open \/ \E e \in EntitySet : MergeCalled(e))
       => \A t \in Tasks : taskState[t] = "STAGED"
  /\ (\E t \in Tasks : taskState[t] = "STAGE_FAILED")
       => /\ pc \in {"phase1", "done", "raised"}
          /\ \A e \in EntitySet : ~MergeCalled(e)
          /\ warehouse = whBefore

\* C1 witness: an invocation that ended at gate 1 with one task failed and
\* another staged.
C1_Witness ==
  /\ pc = "done"
  /\ \E t \in Tasks : taskState[t] = "STAGE_FAILED"
  /\ \E t \in Tasks : taskState[t] = "STAGED"

\* C2 (gate rule 2): a refresh request has been sent in this run only if
\* every entity's merge of the run reported MERGED.
C2_RefreshOnlyAfterAllMerged ==
  refreshSent > 0 => \A e \in EntitySet : mergeState[e] = "MERGED"

\* C3 (no short-circuit in phase 2): when a run that entered phase 2 ends,
\* every entity has had its merge attempted and has ended MERGED or
\* MERGE_FAILED.
C3_NoShortCircuit ==
  (pc \in {"done", "raised"} /\ mergeIdx >= 1)
    => \A e \in EntitySet : mergeState[e] \in {"MERGED", "MERGE_FAILED"}

TaskFailed(st) == st \in {"STAGE_FAILED", "RAISED"}

TablesOfTask(t) == {StagingTable(t[1], tbl) : tbl \in TablesOf(t[2])}

\* C4 (fault isolation): a step in which a staging task fails sets that
\* task's Run Record to FAILED and changes no other Run Record and no
\* staging table of a sibling task.
C4_FaultIsolation ==
  [][\A t \in Tasks :
       (pc = "phase1" /\ ~TaskFailed(taskState[t]) /\ TaskFailed(taskState'[t]))
         => /\ runLog'[RunId(inv, t)].status = "FAILED"
            /\ \A r \in RunIds : r # RunId(inv, t) => runLog'[r] = runLog[r]
            /\ \A tb \in StagingTables \ TablesOfTask(t) :
                 staging'[tb] = staging[tb]]_vars

\* C5 (propagation policy): no exception leaves a staging task; every task
\* returns a boolean and the process is never ended by a task's exception.
C5_NeverPropagates ==
  /\ \A t \in Tasks : taskState[t] # "RAISED"
  /\ exc # "process_entity"

Terminal(st) == st \in {"SUCCESS", "FAILED"}

\* C6 (monotonic status): a Run Record is created RUNNING, leaves RUNNING
\* only for SUCCESS or FAILED, and once SUCCESS or FAILED keeps its status
\* in every later step, of this or a later invocation.
C6_StatusMonotonic ==
  [][\A r \in RunIds :
       /\ runLog[r].status = "NONE" => runLog'[r].status \in {"NONE", "RUNNING"}
       /\ runLog[r].status = "RUNNING"
            => runLog'[r].status \in {"RUNNING", "SUCCESS", "FAILED"}
       /\ Terminal(runLog[r].status) => runLog'[r].status = runLog[r].status]_vars

\* C6 witness: a later invocation has written merge results while records
\* of an earlier invocation were already FAILED and SUCCESS.
C6_Witness ==
  /\ inv = 2
  /\ \E r \in RunIds : r[1] = 1 /\ runLog[r].status = "FAILED"
  /\ \E r \in RunIds : r[1] = 1 /\ runLog[r].status = "SUCCESS"
  /\ \E r \in RunIds : r[1] = 2 /\ runLog[r].status = "SUCCESS"

\* C7 (all-or-nothing merge): while an entity's merge has not committed,
\* and after it failed or raised, the warehouse is as it was when the merge
\* began (the merges committed before it included); a committed merge has
\* written every job of its entity, and nothing of another entity.
C7_AllOrNothing ==
  /\ (mergeIdx >= 1 /\ pc \in {"jobs", "mark", "raised"} /\ ~mergeRes.ok)
       => warehouse = whBefore
  /\ (pc = "mark" /\ mergeRes.ok)
       => /\ \A j \in 1..MaxJobs : warehouse[CurEntity][j] = inv
          /\ \A e \in EntitySet \ {CurEntity} : warehouse[e] = whBefore[e]
  /\ \A e \in EntitySet : \A j, k \in 1..MaxJobs : warehouse[e][j] = warehouse[e][k]

\* C7 witness: the second or a later job of an entity failed on a missing
\* template after an earlier entity's merge had committed.
C7_Witness ==
  /\ pc = "mark"
  /\ mergeRes.set /\ ~mergeRes.ok
  /\ mergeRes.err = "template"
  /\ mergeRes.jobs >= 1
  /\ mergeIdx >= 2
  /\ warehouse[Entities[1]][1] = inv

\* C8 (merge never raises): the process is never ended by an exception
\* raised from run_entity_merge, and no transaction is open once the merge
\* has returned.
C8_MergeNeverRaises ==
  /\ exc # "run_entity_merge"
  /\ pc \in {"mark", "gate2", "done", "raised"} => ~txn.open

GsSuccess ==
  {x \in gsRows : /\ x.store = gsResult.store
                  /\ x.entity = gsResult.entity
                  /\ x.status = "SUCCESS"}

GsMarks == {x.mark : x \in GsSuccess} \ {NullMark}

\* now minus `days` days
DaysBefore(now, days) == now - days * TicksPerDay

\* C10 (extraction window start): with H the greatest high-water mark of
\* the pair's SUCCESS records, get_start_date returns now minus
\* 2 + max(0, whole days from H to now) days; with no SUCCESS record it
\* returns now minus 3 days.
C10_StartDate ==
  gsResult.set =>
    IF GsMarks # {}
    THEN LET H == MaxOf(GsMarks)
             gap == (gsNow - H) \div TicksPerDay
         IN gsResult.value = DaysBefore(gsNow, 2 + (IF gap > 0 THEN gap ELSE 0))
    ELSE GsSuccess = {} => gsResult.value = DaysBefore(gsNow, 3)

\* C11 (overlap guarantee): the window start get_start_date computes for a
\* pair is never later than the greatest high-water mark of the pair's
\* SUCCESS records.
C11_Overlap ==
  (gsResult.set /\ GsMarks # {}) => gsResult.value <= MaxOf(GsMarks)

(***************************************************************************)
(* Paginated extractor: one instance of ShopifyIncrementalExtractor        *)
(* (extarct_incremental.py) or of ShopifyExtractor (extract_table.py) and  *)
(* the fetch_all calls made on it (specification SpecFetch).  The API is   *)
(* a mock transport: the k-th request of the instance gets the k-th        *)
(* response of fxScript.  Time is counted in ticks of a quarter second.    *)
(***************************************************************************)
MaxPages == 3
MaxPageSize == 2
MaxLatency == 1
MaxDelay == 1
MaxCalls == 2

\* 0.5 seconds
MinRequestInterval == 2

\* `if page_count > 1000: break`
PageLimit == 1000

Classes == {"ShopifyIncrementalExtractor", "ShopifyExtractor"}

\* The filter of a call: variables = {"query": "updated_at:>'...'"} or {}
Filters == {"none", "updated_at"}

\* The edges of the i-th response when it carries n of them.
Edges(i, n) == [j \in 1..n |-> 10 * i + j]

\* The responses with a 2xx status and no 'errors' key.
OkResponses(i) ==
  {[kind |-> "ok", edges |-> Edges(i, n), hasNextPage |-> h, endCursor |-> c] :
     n \in 0..MaxPageSize, h \in BOOLEAN, c \in {NullCursor, i}}

\* A non-2xx status, an 'errors' payload, an exception of requests.post.
ErrResponses ==
  {[kind |-> k, edges |-> <<>>, hasNextPage |-> FALSE, endCursor |-> NullCursor] :
     k \in {"http", "gql", "transport"}}

RECURSIVE ScriptsOfLen(_)
ScriptsOfLen(n) ==
  IF n = 0 THEN {<<>>}
  ELSE {Append(s, r) : s \in ScriptsOfLen(n - 1),
                       r \in OkResponses(n) \cup ErrResponses}

\* The API reports has-next-page false, or fails, after finitely many pages.
ApiScripts ==
  {s \in UNION {ScriptsOfLen(n) : n \in 1..MaxPages} :
     s[Len(s)].kind # "ok" \/ ~s[Len(s)].hasNextPage}

\* elapsed = time.time() - self.last_request_time; if elapsed < 0.5:
\* time.sleep(0.5 - elapsed).  The time at which the request goes out.
rate_limit(now, last) ==
  IF now - last < MinRequestInterval
  THEN now + (MinRequestInterval - (now - last))
  ELSE now

\* self.last_request_time after the request.  ShopifyExtractor sets it in
\* _rate_limit, before the request; ShopifyIncrementalExtractor sets it on the
\* line after requests.post, which an exception of requests.post skips.
LastRequestTime(class, last, issued, answered, kind) ==
  IF class = "ShopifyExtractor" THEN issued
  ELSE IF kind = "transport" THEN last
  ELSE answered

\* The cursor is never written into the variables of the request.
request_variables_stale(variables, cursor) == variables

\* variables['cursor'] = cursor
request_variables(variables, cursor) == [variables EXCEPT !.cursor = cursor]

\* The page is put before the records already fetched.
extend_front(all_records, edges) == edges \o all_records

\* all_records.extend(edges)
extend(all_records, edges) == all_records \o edges

\* The records fetched so far are returned when a request fails.
RaiseOut_partial(all_records) == [kind |-> "list", value |-> all_records]

\* The exception of _make_request leaves fetch_all_pages: the caller gets
\* an error and no list.
RaiseOut(all_records) == [kind |-> "error", value |-> <<>>]

\* return all_records
ReturnOut(all_records) == [kind |-> "list", value |-> all_records]

InitFetch ==
  /\ InitSched
  /\ InitNoStart
  /\ InitNoLoad
  /\ fxClass \in Classes
  /\ fxScript \in ApiScripts
  /\ fxNow = MinRequestInterval
  /\ fxLast = 0
  /\ fxReqs = <<>>
  /\ fxCalls = 0
  /\ fxState = "idle"
  /\ fxVars = [query |-> "none", cursor |-> NullCursor]
  /\ fxCursor = NullCursor
  /\ fxHasNext = TRUE
  /\ fxRecords = <<>>
  /\ fxPageCount = 0
  /\ fxFirst = 1
  /\ fxResult = NoResult

\* A caller begins fetch_all_pages(query, resource_name, variables), some
\* time after the last call on the instance ended.
FetchCall ==
  /\ fxState \in {"idle", "returned", "raised"}
  /\ fxCalls < MaxCalls
  /\ Len(fxReqs) < Len(fxScript)
  /\ \E q \in Filters, delay \in 0..MaxDelay :
       /\ fxVars' = [query |-> q, cursor |-> NullCursor]
       /\ fxNow' = fxNow + delay
  /\ fxCalls' = fxCalls + 1
  /\ fxState' = "loop"
  /\ fxCursor' = NullCursor
  /\ fxHasNext' = TRUE
  /\ fxRecords' = <<>>
  /\ fxPageCount' = 0
  /\ fxFirst' = Len(fxReqs) + 1
  /\ fxResult' = NoResult
  /\ UNCHANGED <<fxClass, fxScript, fxLast, fxReqs>>
  /\ UNCHANGED <<schedVars, gsVars, ldVars, gmVars>>

\* An extractor without the safety check on the number of pages.
PageCapReached_never(class, count) == FALSE

\* page_count += 1 ... if page_count > 1000: break, in _fetch_all_pages of
\* ShopifyExtractor only; fetch_all_pages of ShopifyIncrementalExtractor
\* keeps no page count.
PageCapReached(class, count) ==
  class = "ShopifyExtractor" /\ count > PageLimit

\* One turn of `while has_next`: the request (_make_request with its rate
\* limit), then the page is added and the loop condition is evaluated; the
\* call returns in the same step when the loop ends.  The mock transport
\* answers the requests its script has a response for.
FetchPage ==
  /\ fxState = "loop"
  /\ fxHasNext
  /\ Len(fxReqs) < Len(fxScript)
  /\ \E latency \in 0..MaxLatency :
       LET sent == request_variables(fxVars, fxCursor)
           issued == rate_limit(fxNow, fxLast)
           answered == issued + latency
           r == fxScript[Len(fxReqs) + 1]
           records == extend(fxRecords, r.edges)
           count == fxPageCount + 1
           stop == ~r.hasNextPage \/ PageCapReached(fxClass, count)
       IN
       /\ fxVars' = IF fxClass = "ShopifyExtractor" THEN fxVars ELSE sent
       /\ fxReqs' = Append(fxReqs, [cursor |-> sent.cursor, query |-> sent.query,
                                    at |-> issued, call |-> fxCalls])
       /\ fxNow' = answered
       /\ fxLast' = LastRequestTime(fxClass, fxLast, issued, answered, r.kind)
       /\ IF r.kind # "ok"
          THEN /\ fxState' = "raised"
               /\ fxResult' = RaiseOut(fxRecords)
               /\ UNCHANGED <<fxCursor, fxHasNext, fxRecords, fxPageCount>>
          ELSE /\ fxRecords' = records
               /\ fxHasNext' = r.hasNextPage
               /\ fxCursor' = r.endCursor
               /\ fxPageCount' = count
               /\ fxState' = IF stop THEN "returned" ELSE "loop"
               /\ fxResult' = IF stop THEN ReturnOut(records) ELSE fxResult
  /\ UNCHANGED <<fxClass, fxScript, fxCalls, fxFirst>>
  /\ UNCHANGED <<schedVars, gsVars, ldVars, gmVars>>

NextFetch ==
  \/ FetchCall
  \/ FetchPage

SpecFetch == InitFetch /\ [][NextFetch]_vars

\* The loop of a call in progress is always taken again.
SpecFetchLive == SpecFetch /\ WF_vars(FetchPage)

(***************************************************************************)
(* Properties of the paginated extractor (specifications SpecFetch and     *)
(* SpecFetchLive).                                                         *)
(***************************************************************************)
\* The edges of the responses from..to of a script, in order.
RECURSIVE ConcatEdges(_, _, _)
ConcatEdges(script, from, to) ==
  IF from > to THEN <<>>
  ELSE script[from].edges \o ConcatEdges(script, from + 1, to)

\* The requests of the current call.
CallReqs == {k \in 1..Len(fxReqs) : fxReqs[k].call = fxCalls}

\* A returned list is the concatenation, in page order, of the pages up to
\* and including the first page without a next page, one request a page;
\* the loop goes on only after pages that report a next page.
C12_Pages ==
  /\ fxResult.kind = "list" =>
       /\ \A k \in fxFirst..Len(fxReqs) : fxScript[k].kind = "ok"
       /\ \A k \in fxFirst..(Len(fxReqs) - 1) : fxScript[k].hasNextPage
       /\ ~fxScript[Len(fxReqs)].hasNextPage
       /\ fxResult.value = ConcatEdges(fxScript, fxFirst, Len(fxReqs))
       /\ CallReqs = fxFirst..Len(fxReqs)
  /\ fxState = "loop" =>
       \A k \in fxFirst..Len(fxReqs) :
         fxScript[k].kind = "ok" /\ fxScript[k].hasNextPage

\* C12 (fetch_all): the call returns exactly the concatenation, in page
\* order, of the records of every page up to and including the first page
\* whose has-next-page is false, with one request per page, and a call in
\* progress ends when the API reports has-next-page false after finitely
\* many pages.
C12_FetchAll ==
  /\ []C12_Pages
  /\ (fxState = "loop") ~> (fxState \in {"returned", "raised"})

\* C12 witness: a call of three requests returned the records of three
\* pages of sizes 2, 2, 1.
C12_Witness ==
  /\ fxState = "returned"
  /\ fxResult.kind = "list"
  /\ Len(fxReqs) - fxFirst + 1 = 3
  /\ Len(fxScript[fxFirst].edges) = 2
  /\ Len(fxScript[fxFirst + 1].edges) = 2
  /\ Len(fxScript[fxFirst + 2].edges) = 1
  /\ Len(fxResult.value) = 5

\* The first request of a call.
FirstOfCall(k) == k = 1 \/ fxReqs[k - 1].call # fxReqs[k].call

\* C13 (cursor protocol): the first request of a call carries a null
\* cursor, every later request carries the end-cursor of the response
\* before it, and all requests of one call carry the same filter.
C13_CursorProtocol ==
  /\ \A k \in 1..Len(fxReqs) :
       fxReqs[k].cursor = IF FirstOfCall(k) THEN NullCursor
                          ELSE fxScript[k - 1].endCursor
  /\ \A j, k \in 1..Len(fxReqs) :
       fxReqs[j].call = fxReqs[k].call => fxReqs[j].query = fxReqs[k].query

\* C13 witness: a filtered call made three requests, the second and third
\* carrying the end-cursors of the first and second responses.
C13_Witness ==
  /\ Len(fxReqs) = 3
  /\ \A k \in 1..3 : fxReqs[k].call = 1 /\ fxReqs[k].query = "updated_at"
  /\ fxReqs[2].cursor = 1
  /\ fxReqs[3].cursor = 2

\* C14 (rate limit): any two consecutive requests of one extractor instance
\* are issued at least 500 ms apart, whatever the outcome of the earlier
\* one and whichever calls they belong to.
C14_RequestSpacing ==
  \A k \in 2..Len(fxReqs) :
    fxReqs[k].at - fxReqs[k - 1].at >= MinRequestInterval

\* The requests answered by a non-2xx status or an error payload.
Rejected == {k \in 1..Len(fxReqs) : fxScript[k].kind \in {"http", "gql"}}

\* C15 (abort on error): a non-2xx response or an error payload on any
\* page ends the call with an error and no list of records, and the
\* request after it, if any, is the first request of a later call, with a
\* null cursor.
C15_AbortOnError ==
  /\ \A k \in Rejected :
       /\ k < Len(fxReqs) =>
            /\ fxReqs[k + 1].call > fxReqs[k].call
            /\ fxReqs[k + 1].cursor = NullCursor
       /\ (k = Len(fxReqs) /\ fxReqs[k].call = fxCalls) =>
            /\ fxState = "raised"
            /\ fxResult = [kind |-> "error", value |-> <<>>]
  /\ fxResult.kind = "list" => \A k \in CallReqs : fxScript[k].kind = "ok"

\* C15 witness: the third page of a call was answered by an error payload
\* after two pages with records had been fetched.
C15_Witness ==
  /\ fxState = "raised"
  /\ Len(fxReqs) = 3
  /\ fxFirst = 1
  /\ fxScript[3].kind = "gql"
  /\ Len(fxRecords) = 4

(***************************************************************************)
(* process_entity alone (specification SpecLoad): a worker is called for   *)
(* any task, one call after the other, on a database whose staging tables  *)
(* start empty; the API returns any batch of at most MaxBatch records      *)
(* with updatedAt up to MaxStamp or absent.  inv numbers the calls.        *)
(***************************************************************************)
MaxBatch == 2
MaxStamp == 2

\* The last path segment of the id of the i-th record of a batch.
IdTokens == <<"1", "2", "3">>

BatchesOfLen(n) ==
  {[i \in 1..n |-> [id |-> Gid(IdTokens[i]), updatedAt |-> stamps[i]]] :
     stamps \in [1..n -> {NullMark} \cup (1..MaxStamp)]}

LoadBatches == UNION {BatchesOfLen(n) : n \in 0..MaxBatch}

InitLoad ==
  /\ InitRun
  /\ staging = [tb \in StagingTables |-> <<>>]
  /\ InitNoStart
  /\ InitNoFetch
  /\ InitNoLoad

\* process_entity(store, entity, base_dir): log_start, then the try block.
ProcessEntityCall ==
  /\ inv < MaxInvocations
  /\ inv' = inv + 1
  /\ \E t \in Tasks, batch \in LoadBatches :
       \E env \in TaskEnvs[t[2]] :
         /\ env.empty = (batch = <<>>)
         /\ faults + FaultsOf(env) <= MaxFaults
         /\ faults' = faults + FaultsOf(env)
         /\ LET rid == RunId(inv + 1, t)
                out == ProcessEntityBody(rid, batch, log_start(runLog, rid),
                                         staging, env)
            IN
            /\ runLog' = out.log
            /\ staging' = out.stg
            /\ openConns' = openConns \cup ConnLeft("log_start", FALSE)
                               \cup ConnsLeftByTask(env)
            /\ ldLast' = [n |-> inv + 1, task |-> t, batch |-> batch,
                          lost |-> env.lost, fail |-> env.fail, ret |-> out.ret,
                          again |-> (ldLast.task = t /\ ldLast.batch = batch
                                       /\ ldLast.ret = "True")]
  /\ UNCHANGED <<pc, taskState, warehouse, txn, mergeIdx, mergeRes, mergeState,
                 allMergesOk, whBefore, refreshState, refreshSent, exc>>
  /\ UNCHANGED <<gsVars, fxVarsAll, gmVars>>

NextLoad == ProcessEntityCall

SpecLoad == InitLoad /\ [][NextLoad]_vars

(***************************************************************************)
(* Properties of the worker and the staging writer (specification          *)
(* SpecLoad).                                                              *)
(***************************************************************************)
\* C16 (replace-on-load): after a call that reports STAGED, every staging
\* table of its (store, entity) holds exactly the rows derived from the
\* batch of the call, for every batch including the empty one.
C16_ReplaceOnLoad ==
  ldLast.ret = "True" =>
    \A tbl \in TablesOf(ldLast.task[2]) :
      staging[StagingTable(ldLast.task[1], tbl)]
        = Rows(ldLast.batch, ldLast.task[1], tbl)

\* A call in which no statement failed and no insert was lost.
CleanLoad(c) == c.fail = "none" /\ c.lost = {} /\ c.ret = "True"

\* C17 (idempotent load): a call that loads, without failure, the batch the
\* call before it loaded for the same (store, entity) leaves the rows of
\* their staging tables as they were.
C17_Idempotent ==
  [][(/\ ldLast.n >= 1
      /\ ldLast'.n = ldLast.n + 1
      /\ ldLast'.task = ldLast.task
      /\ ldLast'.batch = ldLast.batch
      /\ CleanLoad(ldLast)
      /\ CleanLoad(ldLast'))
       => \A tb \in TablesOfTask(ldLast.task) : staging'[tb] = staging[tb]]_vars

\* C17 witness: a batch of two records has been loaded twice in a row into
\* the tables of one task, which hold two rows each.
C17_Witness ==
  /\ ldLast.n = 2
  /\ ldLast.again
  /\ CleanLoad(ldLast)
  /\ Len(ldLast.batch) = 2
  /\ \A tb \in TablesOfTask(ldLast.task) : Len(staging[tb]) = 2

\* The greatest updatedAt of the records of a batch, NullMark if none has one.
GreatestUpdated(batch) ==
  LET stamps == {batch[i].updatedAt : i \in 1..Len(batch)} \ {NullMark}
  IN IF stamps = {} THEN NullMark ELSE MaxOf(stamps)

\* C18 (high-water mark): the mark a call that reports STAGED records on
\* its Run Record is the greatest updatedAt over the records of its batch,
\* and null when the batch is empty or no record carries an updatedAt.
C18_MarkIsMaxUpdated ==
  ldLast.ret = "True" =>
    /\ runLog[RunId(ldLast.n, ldLast.task)].staging_success = "TRUE"
    /\ runLog[RunId(ldLast.n, ldLast.task)].mark = GreatestUpdated(ldLast.batch)

\* C18 witness: a staged batch of two records whose first record is the
\* later one, and a staged batch none of whose records has an updatedAt.
C18_Witness ==
  /\ ldLast.n = 2
  /\ ldLast.ret = "True"
  /\ Len(ldLast.batch) = 2
  /\ ldLast.batch[1].updatedAt = 2
  /\ ldLast.batch[2].updatedAt = 1
  /\ runLog[RunId(2, ldLast.task)].mark = 2
  /\ \E t \in Tasks : /\ runLog[RunId(1, t)].staging_success = "TRUE"
                      /\ runLog[RunId(1, t)].mark = NullMark

\* The ids of the rows staged for a store.
StagedIds(store) ==
  UNION {{staging[tb][i].id : i \in 1..Len(staging[tb])} :
           tb \in {x \in StagingTables : x[1] = store}}

\* C19 (store-scoped ids): the id of every row staged by a call is the
\* store prefix followed by the last path segment of the raw id, and no id
\* staged for one store is an id staged for the other.
C19_StoreScopedIds ==
  /\ CleanLoad(ldLast) =>
       \A tbl \in TablesOf(ldLast.task[2]) : \A i \in 1..Len(ldLast.batch) :
         staging[StagingTable(ldLast.task[1], tbl)][i].id
           = StorePrefix(ldLast.task[1]) \o LastSegment(ldLast.batch[i].id)
  /\ StagedIds("retail") \cap StagedIds("wholesale") = {}

(***************************************************************************)
(* get_money alone (specification SpecMoney).  A JSON value is a record    *)
(* with its type t ("absent": the key is missing), its characters s when   *)
(* it is a string, and n: its value in hundredths when it is a number,     *)
(* its length when it is a list.  A mapping also has a field for each key  *)
(* the function reads, and `other`: whether it has any other key.          *)
(***************************************************************************)
DigitVal ==
  "0" :> 0 @@ "1" :> 1 @@ "2" :> 2 @@ "3" :> 3 @@ "4" :> 4 @@
  "5" :> 5 @@ "6" :> 6 @@ "7" :> 7 @@ "8" :> 8 @@ "9" :> 9

IsDigits(str) == \A i \in 1..Len(str) : str[i] \in DOMAIN DigitVal

\* The number a string of digits denotes.
RECURSIVE IntOf(_)
IntOf(str) ==
  IF str = <<>> THEN 0
  ELSE 10 * IntOf(SubSeq(str, 1, Len(str) - 1)) + DigitVal[str[Len(str)]]

\* float(str) for a decimal numeral of at most two decimals, in hundredths;
\* ok is false where float raises ValueError.
ParseFloat(str) ==
  LET dots == {i \in 1..Len(str) : str[i] = "."}
      dot == IF dots = {} THEN Len(str) + 1 ELSE CHOOSE i \in dots : TRUE
      whole == SubSeq(str, 1, dot - 1)
      frac == SubSeq(str, dot + 1, Len(str))
      valid == /\ Cardinality(dots) <= 1
               /\ IsDigits(whole) /\ IsDigits(frac)
               /\ Len(whole) + Len(frac) >= 1
               /\ Len(frac) <= 2
  IN IF ~valid THEN [ok |-> FALSE, value |-> 0]
     ELSE [ok |-> TRUE,
           value |-> 100 * IntOf(whole)
                       + (IF Len(frac) = 1 THEN 10 * IntOf(frac) ELSE IntOf(frac))]

\* float(val): of a number, of a string, of anything else (TypeError).
Float(val) ==
  CASE val.t = "num" -> [ok |-> TRUE, value |-> val.n]
    [] val.t = "str" -> ParseFloat(val.s)
    [] OTHER -> [ok |-> FALSE, value |-> 0]

\* try: return type_func(val) if val is not None else default
\* except: return default            (a missing key reads as None)
safe_val(val, default) ==
  IF val.t \in {"absent", "null"} THEN default
  ELSE IF Float(val).ok THEN Float(val).value
  ELSE default

\* bool(x) of a value that is not a mapping.
TruthyScalar(x) ==
  CASE x.t = "str" -> x.s # <<>>
    [] x.t \in {"num", "list"} -> x.n # 0
    [] OTHER -> FALSE

\* bool(obj.get('shopMoney'))
TruthyShopMoney(sm) ==
  IF sm.t = "dict" THEN sm.amount.t # "absent" \/ sm.other
  ELSE TruthyScalar(sm)

\* bool(obj)
TruthyObj(obj) ==
  IF obj.t = "dict"
  THEN obj.shopMoney.t # "absent" \/ obj.amount.t # "absent" \/ obj.other
  ELSE TruthyScalar(obj)

Returned(value) == [set |-> TRUE, raised |-> FALSE, value |-> value]

\* An exception leaves the function.
Raised == [set |-> TRUE, raised |-> TRUE, value |-> 0]

get_money(obj) ==
  IF ~TruthyObj(obj) THEN Returned(0)
  ELSE IF obj.t = "dict"
  THEN IF TruthyShopMoney(obj.shopMoney)
       THEN \* shop_money.get('amount'): AttributeError unless a mapping
            IF obj.shopMoney.t # "dict" THEN Raised
            ELSE Returned(safe_val(obj.shopMoney.amount, 0))
       ELSE Returned(safe_val(obj.amount, 0))
  ELSE Returned(0)

\* The values of an 'amount' key.
Scalar(t, s, n) == [t |-> t, s |-> s, n |-> n]

Absent == Scalar("absent", <<>>, 0)

Amounts ==
  {Absent, Scalar("null", <<>>, 0), Scalar("dict", <<>>, 0),
   Scalar("num", <<>>, 700), Scalar("str", <<>>, 0),
   Scalar("str", <<"1", "2", ".", "5", "0">>, 0), Scalar("str", <<"5">>, 0),
   Scalar("str", <<"a", "b", "c">>, 0)}

\* The values of a 'shopMoney' key: missing, null, a mapping with or
\* without an amount and a currencyCode, and values that are not mappings.
ShopMoneys ==
  [t : {"dict"}, s : {<<>>}, n : {0}, amount : Amounts, other : BOOLEAN]
    \cup {[t |-> x.t, s |-> x.s, n |-> x.n, amount |-> Absent, other |-> FALSE] :
            x \in {Absent, Scalar("null", <<>>, 0), Scalar("str", <<>>, 0),
                   Scalar("str", <<"1", "2", ".", "5", "0">>, 0),
                   Scalar("num", <<>>, 0), Scalar("list", <<>>, 1)}}

NoShopMoney ==
  [t |-> "absent", s |-> <<>>, n |-> 0, amount |-> Absent, other |-> FALSE]

\* The arguments: mappings, and null, strings, numbers and lists.
MoneyArgs ==
  [t : {"dict"}, s : {<<>>}, n : {0}, shopMoney : ShopMoneys, amount : Amounts,
   other : {FALSE}]
    \cup {[t |-> x.t, s |-> x.s, n |-> x.n, shopMoney |-> NoShopMoney,
           amount |-> Absent, other |-> FALSE] :
            x \in {Scalar("null", <<>>, 0), Scalar("str", <<>>, 0),
                   Scalar("str", <<"5">>, 0), Scalar("num", <<>>, 0),
                   Scalar("num", <<>>, 500), Scalar("list", <<>>, 0),
                   Scalar("list", <<>>, 1)}}

InitMoney ==
  /\ InitSched
  /\ InitNoStart
  /\ InitNoFetch
  /\ ldLast = NoLoad
  /\ gmObj \in MoneyArgs
  /\ gmOut = NoMoney

GetMoneyCall ==
  /\ ~gmOut.set
  /\ gmOut' = get_money(gmObj)
  /\ UNCHANGED <<gmObj, schedVars, gsVars, fxVarsAll, ldVars>>

NextMoney == GetMoneyCall

SpecMoney == InitMoney /\ [][NextMoney]_vars

(***************************************************************************)
(* Properties of get_money (specification SpecMoney).                      *)
(***************************************************************************)
\* The amount of a value, 0 when it is absent, null or cannot be parsed.
AmountOr0(val) ==
  CASE val.t = "num" -> val.n
    [] val.t = "str" /\ ParseFloat(val.s).ok -> ParseFloat(val.s).value
    [] OTHER -> 0

\* A present, non-empty shopMoney.
HasShopMoney(obj) ==
  /\ obj.t = "dict"
  /\ obj.shopMoney.t \notin {"absent", "null"}
  /\ TruthyShopMoney(obj.shopMoney)

\* C20 (get_money): the call never raises; it returns the amount nested
\* under a non-empty shopMoney, otherwise the bare amount of the object,
\* and 0.0 for a null, empty or non-mapping argument and for an amount
\* that is absent or cannot be parsed.
C20_GetMoney ==
  gmOut.set =>
    /\ ~gmOut.raised
    /\ gmOut.value =
         IF gmObj.t # "dict" THEN 0
         ELSE IF HasShopMoney(gmObj) THEN AmountOr0(gmObj.shopMoney.amount)
         ELSE AmountOr0(gmObj.amount)

(***************************************************************************)
(* Properties of the two phases and of the run log (specification Spec).   *)
(***************************************************************************)
\* Gate 1 has been evaluated in this run, or the results were being read
\* when a task's exception ended the run.
PastPhase1 ==
  \/ pc \in {"merge", "jobs", "mark", "gate2"}
  \/ pc = "done" /\ inv >= 1
  \/ pc = "raised" /\ exc # "import"

\* C21 (barrier between the phases): gate 1 is evaluated, and the first
\* merge starts, only after every one of the six staging tasks has finished
\* (staged, failed or raised); no merge transaction is open while a staging
\* task is running or waiting.
C21_Barrier ==
  /\ PastPhase1 => \A t \in Tasks : Finished(t)
  /\ (\E e \in EntitySet : MergeCalled(e)) => \A t \in Tasks : Finished(t)
  /\ txn.open => Running = {} /\ \A t \in Tasks : taskState[t] # "PENDING"

\* C21 witness: a merge transaction is open and has executed a job, every
\* one of the six tasks having finished STAGED.
C21_Witness ==
  /\ txn.open
  /\ txn.done >= 1
  /\ \A t \in Tasks : taskState[t] = "STAGED"

\* The tasks process_entity has been called for in this run.
Started == {t \in Tasks : taskState[t] # "PENDING"}

\* A step of a run takes a task forward only: from the queue to a worker,
\* from the worker to its result, and never back.
RunOnce ==
  \A t \in Tasks :
    inv' = inv =>
      /\ taskState[t] = "PENDING" => taskState'[t] \in {"PENDING", "RUNNING", "RAISED"}
      /\ taskState[t] = "RUNNING"
           => taskState'[t] \in {"RUNNING", "STAGED", "STAGE_FAILED", "RAISED"}
      /\ Finished(t) => taskState'[t] = taskState[t]

\* C22 (bounded worker pool): at every moment at most 4 staging tasks are
\* running and the others submitted wait in the queue, in the order of
\* their submission; no task is run a second time in a run; and, every
\* running task terminating, each of the 6 submitted tasks is eventually
\* run to its end.
C22_WorkerPool ==
  /\ [](/\ Cardinality(Running) <= MaxWorkers
        /\ \A t \in Started : Before[t] \subseteq Started)
  /\ [][RunOnce]_vars
  /\ (pc = "phase1") ~> (\A t \in Tasks : Finished(t))

\* C22 witness: four tasks are running and the two submitted last wait.
C22_Witness ==
  /\ pc = "phase1"
  /\ Cardinality(Running) = MaxWorkers
  /\ taskState[TaskOrder[5]] = "PENDING"
  /\ taskState[TaskOrder[6]] = "PENDING"

\* The merge flag a finished merge of entity e leaves on the records.
MergeFlag(e) == IF mergeState[e] = "MERGED" THEN "TRUE" ELSE "FALSE"

\* The merge of the k-th entity has returned and its result is on the Run
\* Records of both stores of this run.
MergeRecorded(k) ==
  /\ mergeState[Entities[k]] \in {"MERGED", "MERGE_FAILED"}
  /\ \A s \in StoreSet :
       LET rec == runLog[RunId(inv, <<s, Entities[k]>>)]
       IN /\ rec.merge_success = MergeFlag(Entities[k])
          /\ rec.status = IF mergeState[Entities[k]] = "MERGED"
                          THEN "SUCCESS" ELSE "FAILED"

\* C23 (phase 2 is strictly serial): at most one entity's merge is in
\* progress at any moment, the open transaction is that entity's; an
\* entity's merge starts only when the merge of every entity before it in
\* the order orders, customers, products has returned and its result has
\* been written to the Run Records of the run.
C23_SerialMerges ==
  /\ Cardinality({e \in EntitySet : mergeState[e] = "RUNNING"}) <= 1
  /\ txn.open => /\ mergeState[CurEntity] = "RUNNING"
                 /\ \A e \in EntitySet \ {CurEntity} : mergeState[e] # "RUNNING"
  /\ Entities = <<"orders", "customers", "products">>
  /\ \A j \in 1..Len(Entities) :
       MergeCalled(Entities[j]) => \A k \in 1..(j - 1) : MergeRecorded(k)

\* C23 witness: the merge of products is in progress, after the merge of
\* orders failed and that of customers committed.
C23_Witness ==
  /\ pc = "jobs"
  /\ txn.open
  /\ mergeState = [e \in EntitySet |->
                     CASE e = "orders" -> "MERGE_FAILED"
                       [] e = "customers" -> "MERGED"
                       [] OTHER -> "RUNNING"]

(***************************************************************************)
(* The names of the staging tables, as IncrementalLoader.__init__ builds   *)
(* them: strings, a string being a sequence of tokens.                     *)
(***************************************************************************)
\* The short name of a table, word by word.
TableWords(tbl) ==
  CASE tbl = "dim_customers" -> <<"dim", "_", "customers">>
    [] tbl = "dim_products" -> <<"dim", "_", "products">>
    [] tbl = "dim_product_variants" -> <<"dim", "_", "product", "_", "variants">>
    [] tbl = "fact_current_inventory" -> <<"fact", "_", "current", "_", "inventory">>
    [] tbl = "inventory_snapshot" -> <<"inventory", "_", "snapshot">>
    [] tbl = "fact_orders" -> <<"fact", "_", "orders">>
    [] tbl = "fact_order_items" -> <<"fact", "_", "order", "_", "items">>

\* A loader whose table names leave the store out: f"staging_{tbl}".
TableName_nostore(store, tbl) == <<"staging", "_">> \o TableWords(tbl)

\* f"staging_{store_name}_{tbl}"
TableName(store, tbl) == <<"staging", "_", store, "_">> \o TableWords(tbl)

\* The names of the tables the loader call of task t truncates and inserts
\* into: the list given to truncate_staging, the tables of _bulk_insert.
TableNamesOfTask(t) == {TableName(t[1], tbl) : tbl \in TablesOf(t[2])}

\* The names of the tables a step writes.
Written == {TableName(tb[1], tb[2]) : tb \in {x \in StagingTables : staging'[x] # staging[x]}}

\* C24 (disjoint staging tables): any two distinct tasks of a run truncate
\* and insert into disjoint sets of tables, and a step of a task writes
\* tables of that task only, so that no interleaving of phase 1 has two
\* tasks writing the same table.
C24_DisjointTables ==
  /\ [](\A t, u \in Tasks :
          t # u => TableNamesOfTask(t) \cap TableNamesOfTask(u) = {})
  /\ [][\A t \in Tasks :
          (taskState[t] = "RUNNING" /\ taskState'[t] # "RUNNING")
            => /\ Written \subseteq TableNamesOfTask(t)
               /\ \A u \in Tasks \ {t} : Written \cap TableNamesOfTask(u) = {}]_vars

\* C24 witness: a task has replaced the rows of its tables while a task of
\* the other store for the same entity is running.
C24_Witness ==
  /\ pc = "phase1"
  /\ inv = 1
  /\ taskState[<<"retail", "orders">>] = "STAGED"
  /\ taskState[<<"wholesale", "orders">>] = "RUNNING"
  /\ \A tbl \in TablesOf("orders") :
       /\ staging[StagingTable("retail", tbl)] = Rows(BatchOf(1), "retail", tbl)
       /\ staging[StagingTable("wholesale", tbl)] = Rows(BatchOf(0), "wholesale", tbl)

\* The Run Records created in the current run.
RunRecords == {r \in RunIds : r[1] = inv /\ runLog[r].status # "NONE"}

\* C25 (a failed staging task leaves no merge result): in a run in which at
\* least one staging task has failed, every Run Record created in the run
\* has its merge-success flag unset, and the warehouse tables are as they
\* were when the run began.
C25_NoMergeAfterStageFailure ==
  (\E t \in Tasks : TaskFailed(taskState[t]))
    => /\ \A r \in RunRecords : runLog[r].merge_success = "NULL"
       /\ warehouse = whBefore
       /\ \A e \in EntitySet : ~MergeCalled(e)

\* C25 witness: the second run ended at gate 1 with one task failed and the
\* five others staged, the warehouse holding the merges of the first run.
C25_Witness ==
  /\ inv = 2
  /\ pc = "done"
  /\ Cardinality({t \in Tasks : taskState[t] = "STAGE_FAILED"}) = 1
  /\ Cardinality({t \in Tasks : taskState[t] = "STAGED"}) = 5
  /\ Cardinality(RunRecords) = 6
  /\ \A e \in EntitySet : \A j \in 1..MaxJobs : warehouse[e][j] = 1

\* C26 (frame of mark_merge_result): the step that writes an entity's merge
\* result sets the merge-success flag, the status (SUCCESS if the merge
\* succeeded, FAILED otherwise) and the note on every Run Record that is
\* RUNNING for that entity, of either store, and on nothing else: a record
\* of another entity, and a record already SUCCESS or FAILED, is unchanged,
\* and so are the staging flag and the mark of the records it writes.
C26_MarkMergeResultFrame ==
  [][(pc = "mark" /\ pc' # "raised")
       => \A r \in RunIds :
            IF runLog[r].status = "RUNNING" /\ EntityOf(r) = CurEntity
            THEN /\ runLog'[r].merge_success = (IF mergeRes.ok THEN "TRUE" ELSE "FALSE")
                 /\ runLog'[r].status = (IF mergeRes.ok THEN "SUCCESS" ELSE "FAILED")
                 /\ runLog'[r].notes = mergeRes.err
                 /\ runLog'[r].staging_success = runLog[r].staging_success
                 /\ runLog'[r].mark = runLog[r].mark
            ELSE runLog'[r] = runLog[r]]_vars

\* C26 witness: in the second run the result of the orders merge has been
\* written on the records of both stores, a record of orders that the first
\* run left FAILED keeps its note, and the records of customers are still
\* RUNNING.
C26_Witness ==
  /\ inv = 2
  /\ pc = "merge"
  /\ mergeIdx = 2
  /\ \A s \in StoreSet :
       /\ runLog[RunId(2, <<s, "orders">>)].status = "SUCCESS"
       /\ runLog[RunId(2, <<s, "orders">>)].merge_success = "TRUE"
       /\ runLog[RunId(2, <<s, "customers">>)].status = "RUNNING"
  /\ \E s \in StoreSet :
       /\ runLog[RunId(1, <<s, "orders">>)].status = "FAILED"
       /\ runLog[RunId(1, <<s, "orders">>)].merge_success = "NULL"

\* C27 (a connection per operation): no connection opened by a Watermark
\* Store operation (log_start, log_staging_success, log_fail,
\* get_start_date, the merge-result update) is open once the operation has
\* ended, whether it returned or raised.
C27_ConnectionsClosed == openConns = {}

\* Every row the loader derives from the batch of call c is in the staging
\* table it was derived for.
RowsInserted(c) ==
  \A tbl \in TablesOf(c.task[2]) :
    LET rows == Rows(c.batch, c.task[1], tbl)
        held == staging[StagingTable(c.task[1], tbl)]
    IN \A i \in 1..Len(rows) : \E j \in 1..Len(held) : held[j] = rows[i]

\* C28 (STAGED only if the rows were inserted): a call that returns true
\* and records staging success has every row derived from its batch in its
\* staging tables; a call in which the bulk insert of a table failed after
\* the truncation returns false and leaves its Run Record FAILED.
C28_StagedOnlyIfInserted ==
  /\ (ldLast.ret = "True" /\ ldLast.batch # <<>>) => RowsInserted(ldLast)
  /\ (ldLast.n >= 1 /\ ldLast.lost # {})
       => /\ ldLast.ret = "False"
          /\ runLog[RunId(ldLast.n, ldLast.task)].status = "FAILED"

\* C29 (no record left RUNNING): when run_daily_job has returned, every Run
\* Record created in the run is SUCCESS or FAILED, the records of the tasks
\* that staged in a run whose phase 2 was skipped included.
C29_AllTerminalAtReturn ==
  (pc = "done" /\ inv >= 1) => \A r \in RunRecords : Terminal(runLog[r].status)

\* C30 (merge results stay within their run): no step of a run changes a
\* Run Record created in an earlier run; a record an earlier run left
\* RUNNING never takes the status or the merge flag of a later run's merge.
C30_MergeResultOwnRunOnly ==
  [][\A r \in RunIds : r[1] < inv => runLog'[r] = runLog[r]]_vars

\* C31 (SUCCESS implies staged and merged): a Run Record with status
\* SUCCESS has its staging-success flag true and its merge-success flag
\* true, and the record of a task of the run that failed is not SUCCESS.
C31_SuccessMeansStagedAndMerged ==
  /\ \A r \in RunIds :
       runLog[r].status = "SUCCESS"
         => /\ runLog[r].staging_success = "TRUE"
            /\ runLog[r].merge_success = "TRUE"
  /\ \A t \in Tasks :
       TaskFailed(taskState[t]) => runLog[RunId(inv, t)].status # "SUCCESS"

\* The rows of etl_run_log, as get_start_date reads them.
LogRows(log) ==
  {[store |-> StoreOf(r), entity |-> EntityOf(r), status |-> log[r].status,
    mark |-> log[r].mark] : r \in {x \in RunIds : log[x].status # "NONE"}}

\* The marks get_start_date selects from for a pair.
UsableMarks(log, t) == SuccessMarks(LogRows(log), t[1], t[2])

\* The mark the current run has recorded for a pair, if the pair's task
\* staged and the entity's merge committed in this run.
OwnMergedMark(log, t) ==
  IF inv >= 1 /\ taskState[t] = "STAGED" /\ mergeState[t[2]] = "MERGED"
  THEN {log[RunId(inv, t)].mark}
  ELSE {}

C33_ExtractFailureFrame ==
  [][(ldLast'.n = ldLast.n + 1 /\ ldLast'.fail = "extract")
       => LET rec == runLog'[RunId(ldLast'.n, ldLast'.task)]
          IN /\ staging' = staging
             /\ rec.status = "FAILED"
             /\ rec.notes = "extract"
             /\ rec.mark = NullMark
             /\ rec.staging_success = "NULL"]_vars

(***************************************************************************)
(* The extractors against an API that goes on reporting a next page        *)
(* (specification SpecPaging).  The mock transport has MaxRequests         *)
(* responses: pages that all report a next page, or such pages up to a     *)
(* last page or an error at one of StopPoints.  Responses arrive at once.  *)
(***************************************************************************)
MaxExtraPages == 2

\* The requests the mock transport answers: past the 1001 of the page cap.
MaxRequests == PageLimit + 1 + MaxExtraPages

\* The k-th page, one record on it, with or without a next page.
Page(k, more) ==
  [kind |-> "ok", edges |-> Edges(k, 1), hasNextPage |-> more, endCursor |-> k]

ErrPage ==
  [kind |-> "http", edges |-> <<>>, hasNextPage |-> FALSE,
   endCursor |-> NullCursor]

\* Where the API that does end reports its last page or fails.
StopPoints == {2, PageLimit + 1, PageLimit + 2}

\* Has-next-page is true on every page.
EndlessScript == [k \in 1..MaxRequests |-> Page(k, TRUE)]

PagingScripts ==
  {EndlessScript}
    \cup UNION {{[k \in 1..p |-> IF k < p THEN Page(k, TRUE) ELSE last] :
                   last \in {Page(p, FALSE), ErrPage}} : p \in StopPoints}

InitPaging ==
  /\ InitSched
  /\ InitNoStart
  /\ InitNoLoad
  /\ fxClass \in Classes
  /\ fxScript \in PagingScripts
  /\ fxNow = MinRequestInterval
  /\ fxLast = 0
  /\ fxReqs = <<>>
  /\ fxCalls = 0
  /\ fxState = "idle"
  /\ fxVars = [query |-> "none", cursor |-> NullCursor]
  /\ fxCursor = NullCursor
  /\ fxHasNext = TRUE
  /\ fxRecords = <<>>
  /\ fxPageCount = 0
  /\ fxFirst = 1
  /\ fxResult = NoResult

\* The one call made on the instance.
FetchCallFirst == FetchCall /\ fxCalls = 0

\* A turn of the loop whose response arrives with no latency.
FetchPageAtOnce == FetchPage /\ fxNow' = rate_limit(fxNow, fxLast)

NextPaging ==
  \/ FetchCallFirst
  \/ FetchPageAtOnce

SpecPaging == InitPaging /\ [][NextPaging]_vars

\* The requests of the call so far.
Requests == Len(fxReqs) - fxFirst + 1

\* The response to the last request.
LastResponse == fxScript[Len(fxReqs)]

\* C34 (termination of the pagination): against an API that reports a next
\* page on every page, _fetch_all_pages of ShopifyExtractor makes at most
\* PageLimit + 1 = 1001 requests and then returns the records fetched so
\* far, one page per request, while fetch_all_pages of
\* ShopifyIncrementalExtractor is never ended by a page count: a call of
\* either class ends only when a response reports no next page (it
\* returns), an error occurs (it raises), or, for ShopifyExtractor, the
\* 1001st page has been fetched.
C34_PageCap ==
  /\ fxClass = "ShopifyExtractor" => Requests <= PageLimit + 1
  /\ fxState = "returned"
       => /\ LastResponse.kind = "ok"
          /\ \/ ~LastResponse.hasNextPage
             \/ fxClass = "ShopifyExtractor" /\ Requests = PageLimit + 1
          /\ fxResult.kind = "list"
          /\ Len(fxResult.value) = Requests
          /\ \A k \in 1..Requests : fxResult.value[k] = Edges(k, 1)[1]
  /\ fxState = "raised" => LastResponse.kind # "ok"
  /\ (fxScript = EndlessScript /\ fxClass = "ShopifyIncrementalExtractor")
       => fxState \in {"idle", "loop"}
  /\ (fxScript = EndlessScript /\ fxClass = "ShopifyExtractor"
        /\ Requests = PageLimit + 1)
       => fxState = "returned"

\* C34 witness: against the endless API ShopifyExtractor has returned 1001
\* records after 1001 requests.
C34_Witness ==
  /\ fxScript = EndlessScript
  /\ fxClass = "ShopifyExtractor"
  /\ fxState = "returned"
  /\ Requests = PageLimit + 1
  /\ Len(fxResult.value) = PageLimit + 1

\* Against the endless API ShopifyIncrementalExtractor is still in its loop
\* after more than 1001 requests.
StillPaging ==
  /\ fxScript = EndlessScript
  /\ fxClass = "ShopifyIncrementalExtractor"
  /\ fxState = "loop"
  /\ Requests > PageLimit + 1

====
